---- MODULE Spec2Model ----
(***************************************************************************)
(* SmartDapp: the wallet/network service (Web3InteropService), the storage *)
(* service (StorageService) with its adapters, and the parts of the        *)
(* contract service that read the active network.                          *)
(*                                                                         *)
(* JavaScript values are modelled as tagged records so that null, NaN and  *)
(* numbers can be compared: Null, NaN, Num(n).  Strings are TLA+ strings.  *)
(***************************************************************************)
EXTENDS Integers, Sequences, FiniteSets, TLC

(***************************************************************************)
(* JavaScript values                                                       *)
(***************************************************************************)
Null == [t |-> "null"]
NaN == [t |-> "NaN"]
Num(n) == [t |-> "number", v |-> n]

\* The outcome of a synchronous call: an exception, or a returned value.
Threw(error) == [ok |-> FALSE, error |-> error]
Returned(value) == [ok |-> TRUE, value |-> value]

\* JavaScript truthiness of a number-or-null value (used by `!networkId`).
Truthy(x) == x.t = "number" /\ x.v # 0

(***************************************************************************)
(* Configuration handed to the constructors                                *)
(***************************************************************************)
\* The networks of networksMap in configuration order, as appKit.getCaipNetworks
\* returns them: id, testnet flag and first default RPC url.
NetworkList ==
    << [id |-> 1, testnet |-> FALSE, rpc |-> "https://rpc.example/1"],
       [id |-> 137, testnet |-> FALSE, rpc |-> "https://rpc.example/137"],
       [id |-> 5, testnet |-> TRUE, rpc |-> "https://rpc.example/5"] >>

\* The apiUrls constructor argument: network id -> mapping of api name to url.
\* A mapping is a set of <<name, url>> pairs; network 5 has no entry.
ApiUrlsConfig ==
    [n \in {1, 137} |->
        IF n = 1 THEN {<<"backend", "https://api.example/1">>}
                 ELSE {<<"backend", "https://api.example/137">>}]

EmptyMapping == {}

\* Application callbacks that may be registered; BadCallbacks throw whenever
\* they are invoked.
Callbacks == {"cbA", "cbBad", "cbB"}
BadCallbacks == {"cbBad"}

\* Addresses a wallet signer may be bound to.
Addresses == {"0xA1", "0xB2"}

(***************************************************************************)
(* Raw SDK events                                                          *)
(***************************************************************************)
\* A CAIP network identifier "<namespace>:<reference>"; the reference is kept
\* as a sequence of characters so that it can be parsed.
Caip(ns, ref) == [ns |-> ns, ref |-> ref]

RawNetworks ==
    { Caip("eip155", <<"1">>),
      Caip("eip155", <<"1", "3", "7">>),
      Caip("eip155", <<"5">>),
      Caip("solana", <<"m">>) }

RawEvents ==
    { [event |-> e] : e \in {"CONNECT_SUCCESS", "DISCONNECT_SUCCESS",
                             "SELECT_WALLET", "MODAL_OPEN"} }
    \cup { [event |-> "SWITCH_NETWORK", network |-> c] : c \in RawNetworks }

Digits == {"0", "1", "2", "3", "4", "5", "6", "7", "8", "9"}

DigitValue(c) ==
    CASE c = "0" -> 0 [] c = "1" -> 1 [] c = "2" -> 2 [] c = "3" -> 3
      [] c = "4" -> 4 [] c = "5" -> 5 [] c = "6" -> 6 [] c = "7" -> 7
      [] c = "8" -> 8 [] c = "9" -> 9

RECURSIVE DecimalValue(_)
DecimalValue(s) ==
    IF s = << >> THEN 0
    ELSE 10 * DecimalValue(SubSeq(s, 1, Len(s) - 1)) + DigitValue(s[Len(s)])

\* event.data.properties.network.replace("eip155:", ""): the characters left
\* of an identifier after the first occurrence of "eip155:" is removed.  An
\* identifier of another namespace keeps its "<namespace>:" prefix.
StripEip155(c) ==
    IF c.ns = "eip155" THEN c.ref ELSE <<c.ns, ":">> \o c.ref

\* Number(string) on the character sequences above: the empty string is 0, a
\* run of decimal digits is its value, anything else is NaN.
ToNumber(s) ==
    IF \A i \in 1..Len(s) : s[i] \in Digits THEN Num(DecimalValue(s)) ELSE NaN

(***************************************************************************)
(* State                                                                   *)
(***************************************************************************)
VARIABLES
    developerMode,   \* Web3InteropService.developerMode
    provider,        \* TRUE iff appKit.getProvider("eip155") is defined
    networkId,       \* Web3InteropService.networkId
    subscribers,     \* Web3InteropService.subscribers, in insertion order
    pending,         \* getSigner() promises of connect events not yet settled
    lastRaw,         \* the raw event last handed to the handler, and how it ended
    lastDispatch,    \* the last run of notifySubscribers, and the set it ran over
    lastChanged,     \* chainId of the last NETWORK_CHANGED a subscriber received
    readNetwork,     \* chain id the service's read provider has detected
    modalOpen,       \* whether the AppKit modal is shown
    adapter,         \* which StorageAdapter the StorageService was given
    localStorage,    \* the browser storage behind the adapter
    stored,          \* history: <<network id, key>> -> value last given to storeMetadata
    call             \* the application's call in progress, or the last one settled

vars == << developerMode, provider, networkId, subscribers, pending, lastRaw,
           lastDispatch, lastChanged, readNetwork, modalOpen, adapter,
           localStorage, stored, call >>

\* The wallet/network service's own fields and what is observed of its handler.
serviceVars == << developerMode, networkId, subscribers, pending, lastRaw,
                  lastDispatch, lastChanged >>

\* The SDK's and the environment's state.
sdkVars == << provider, readNetwork, modalOpen >>

\* The storage behind the StorageService.
storageVars == << adapter, localStorage, stored >>

NoEvent == [ev |-> [event |-> "none"], threw |-> FALSE, signer |-> "none"]
NoDispatch == [run |-> [n |-> "none"], subs |-> << >>]
Idle == [op |-> "none", pc |-> "idle"]

\* Signer promises of connect events that may be outstanding at once.
MaxPending == 2

\* The services as the facade constructs them, with its default adapter.
Init ==
    /\ developerMode \in BOOLEAN
    /\ provider = FALSE
    /\ networkId = Null
    /\ subscribers = << >>
    /\ pending = 0
    /\ lastRaw = NoEvent
    /\ lastDispatch = NoDispatch
    /\ lastChanged = Null
    /\ readNetwork = Null
    /\ modalOpen = FALSE
    /\ adapter = "json"
    /\ localStorage = << >>
    /\ stored = << >>
    /\ call = Idle

\* The application has at most one call of its own in flight; raw events, the
\* wallet and the read provider act at any time.
CanCall == call.pc \in {"idle", "settled"}

(***************************************************************************)
(* Web3InteropService: subscribers and dispatch                            *)
(***************************************************************************)
\* A registration that puts the newest callback first.
subscribeToChangesFront(cb) ==
    /\ subscribers' =
          IF \E i \in 1..Len(subscribers) : subscribers[i] = cb
          THEN subscribers ELSE << cb >> \o subscribers
    /\ UNCHANGED << developerMode, networkId, pending, lastRaw, lastDispatch,
                    lastChanged, sdkVars, storageVars, call >>

\* An add that appends whether or not the callback is registered already.
SetAddAgain(subs, cb) == Append(subs, cb)

\* Set.prototype.add on a set kept in insertion order: a value already in the
\* set keeps its place and is not added again.
SetAdd(subs, cb) ==
    IF \E i \in 1..Len(subs) : subs[i] = cb THEN subs ELSE Append(subs, cb)

\* subscribeToChanges: Set.add keeps the first position of a callback that is
\* already registered.
subscribeToChanges(cb) ==
    /\ subscribers' = SetAdd(subscribers, cb)
    /\ UNCHANGED << developerMode, networkId, pending, lastRaw, lastDispatch,
                    lastChanged, sdkVars, storageVars, call >>

\* The index of the first callback of subs that throws, 0 when none does.
FirstThrowing(subs) ==
    LET bad == {i \in 1..Len(subs) : subs[i] \in BadCallbacks} IN
    IF bad = {} THEN 0 ELSE CHOOSE i \in bad : \A j \in bad : i <= j

\* notifySubscribers without the try/catch around each callback: the first
\* exception ends the forEach and reaches the caller.
notifySubscribersNoCatch(subs, n, data) ==
    LET k == FirstThrowing(subs)
        m == IF k = 0 THEN Len(subs) ELSE k IN
    [ n |-> n, data |-> data,
      calls |-> [i \in 1..m |->
                    [cb |-> subs[i], n |-> n, data |-> data,
                     threw |-> subs[i] \in BadCallbacks]],
      escaped |-> k # 0 ]

\* notifySubscribers: every callback of the set, in insertion order, each in
\* its own try/catch; nothing escapes to the caller.
notifySubscribers(subs, n, data) ==
    [ n |-> n, data |-> data,
      calls |-> [i \in 1..Len(subs) |->
                    [cb |-> subs[i], n |-> n, data |-> data,
                     threw |-> subs[i] \in BadCallbacks]],
      escaped |-> FALSE ]

\* A run of notifySubscribers as the state keeps it: the run, and the
\* subscriber set it ran over.
Dispatch(n, data) ==
    [run |-> notifySubscribers(subscribers, n, data), subs |-> subscribers]

(***************************************************************************)
(* Web3InteropService.handleAppKitEvent                                    *)
(*                                                                         *)
(* self is the receiver (`this`) of the invocation: "instance" when the    *)
(* handler runs as a method of the service, "undefined" when it is called  *)
(* as a bare function (class bodies are strict code).                      *)
(***************************************************************************)
IsConnect(ev) == ev.event \in {"CONNECT_SUCCESS", "SELECT_WALLET"}

\* Every case but `default` starts by reading or writing a property of the
\* receiver; on an undefined receiver that is a TypeError.
ThrowsOnReceiver(self, ev) ==
    /\ self = "undefined"
    /\ ev.event \in {"CONNECT_SUCCESS", "DISCONNECT_SUCCESS", "SWITCH_NETWORK",
                     "SELECT_WALLET"}

apiUrlsFor(id) ==
    IF id.t = "number" /\ id.v \in DOMAIN ApiUrlsConfig
    THEN ApiUrlsConfig[id.v] ELSE EmptyMapping

handleAppKitEvent(self, ev) ==
    /\ UNCHANGED << developerMode, subscribers, sdkVars, storageVars, call >>
    /\ IF ThrowsOnReceiver(self, ev)
       THEN /\ lastRaw' = [ev |-> ev, threw |-> TRUE, signer |-> "none"]
            /\ UNCHANGED << networkId, pending, lastDispatch, lastChanged >>
       ELSE CASE IsConnect(ev) ->
                \* this.getSigner().then(notify): no provider rejects the
                \* promise at once, and no rejection handler is attached.
                IF provider
                THEN /\ pending < MaxPending
                     /\ pending' = pending + 1
                     /\ lastRaw' = [ev |-> ev, threw |-> FALSE, signer |-> "pending"]
                     /\ UNCHANGED << networkId, lastDispatch, lastChanged >>
                ELSE /\ lastRaw' = [ev |-> ev, threw |-> FALSE, signer |-> "rejected"]
                     /\ UNCHANGED << networkId, pending, lastDispatch, lastChanged >>
              [] ev.event = "DISCONNECT_SUCCESS" ->
                /\ lastDispatch' = Dispatch("DISCONNECTED", [reason |-> "Disconnected"])
                /\ lastRaw' = [ev |-> ev, threw |-> lastDispatch'.run.escaped,
                               signer |-> "none"]
                /\ UNCHANGED << networkId, pending, lastChanged >>
              [] ev.event = "SWITCH_NETWORK" ->
                LET id == ToNumber(StripEip155(ev.network)) IN
                /\ networkId' = id
                /\ lastDispatch' = Dispatch("NETWORK_CHANGED",
                                       [chainId |-> id, apiUrls |-> apiUrlsFor(id)])
                /\ lastChanged' = IF subscribers = << >> THEN lastChanged ELSE id
                /\ lastRaw' = [ev |-> ev, threw |-> lastDispatch'.run.escaped,
                               signer |-> "none"]
                /\ UNCHANGED pending
              [] OTHER ->
                /\ lastRaw' = [ev |-> ev, threw |-> FALSE, signer |-> "none"]
                /\ UNCHANGED << networkId, pending, lastDispatch, lastChanged >>

\* The constructor hands the SDK the bare method reference
\* (subscribeEvents(this.handleAppKitEvent)), so the SDK's call has no receiver.
RegisteredReceiver == "undefined"

\* The SDK delivers a raw event to the handler registered at construction.
SdkEmit(ev) == handleAppKitEvent(RegisteredReceiver, ev)

\* The handler invoked as a method of the service instance.
MethodEmit(ev) == handleAppKitEvent("instance", ev)

\* A getSigner() promise of a connect event settles: fulfilled with a signer
\* (the `then` callback notifies CONNECTED) or rejected (nothing runs).
SignerSettle(ok, address) ==
    /\ pending > 0
    /\ pending' = pending - 1
    /\ IF ok
       THEN lastDispatch' = Dispatch("CONNECTED", [address |-> address])
       ELSE UNCHANGED lastDispatch
    /\ UNCHANGED << developerMode, networkId, subscribers, lastRaw, lastChanged,
                    sdkVars, storageVars, call >>

\* The wallet attaches or detaches its EIP-1193 provider.
ProviderAttach ==
    /\ ~provider
    /\ provider' = TRUE
    /\ UNCHANGED << serviceVars, readNetwork, modalOpen, storageVars, call >>

ProviderDetach ==
    /\ provider
    /\ provider' = FALSE
    /\ UNCHANGED << serviceVars, readNetwork, modalOpen, storageVars, call >>

(***************************************************************************)
(* Web3InteropService.selectNetwork / changeNetwork                        *)
(***************************************************************************)
\* Errors the service itself raises (an Error has no code: 0 here).
NotFoundError == [code |-> 0, message |-> "Network not found in AppKit configuration"]
PolicyError == [code |-> 0, message |-> "Network is a testnet and developer mode is disabled"]
NoProviderError == [code |-> 0, message |-> "No EIP-155 provider available"]

UnrecognizedChainCode == 4902

\* Errors a wallet may answer a request with.
WalletErrors ==
    { [code |-> 4001, message |-> "User rejected the request."],
      [code |-> UnrecognizedChainCode, message |-> "Unrecognized chain ID"],
      [code |-> UnrecognizedChainCode, message |-> "Chain missing"],
      [code |-> -32603, message |-> "Chain not added to wallet"],
      [code |-> -32603, message |-> "Try: Add Ethereum Chain"],
      [code |-> -32603, message |-> "Internal error"] }

\* /unrecognized|not added|add ethereum chain/i.test(message), tabulated on
\* the messages of WalletErrors.
MatchesAddChainPattern(message) ==
    message \in {"Unrecognized chain ID", "Chain not added to wallet",
                 "Try: Add Ethereum Chain"}

\* The test with only the error code looked at.
IsUnrecognizedChainCodeOnly(err) == err.code = UnrecognizedChainCode

\* The catch clause's test of the first switch's error.
IsUnrecognizedChain(err) ==
    err.code = UnrecognizedChainCode \/ MatchesAddChainPattern(err.message)

HexDigit(d) ==
    CASE d = 0 -> "0" [] d = 1 -> "1" [] d = 2 -> "2" [] d = 3 -> "3"
      [] d = 4 -> "4" [] d = 5 -> "5" [] d = 6 -> "6" [] d = 7 -> "7"
      [] d = 8 -> "8" [] d = 9 -> "9" [] d = 10 -> "a" [] d = 11 -> "b"
      [] d = 12 -> "c" [] d = 13 -> "d" [] d = 14 -> "e" [] d = 15 -> "f"

\* Number.prototype.toString(16)
RECURSIVE ToString16(_)
ToString16(n) ==
    IF n < 16 THEN HexDigit(n) ELSE ToString16(n \div 16) \o HexDigit(n % 16)

\* desiredHex
DesiredHex(id) == "0x" \o ToString16(id)

SwitchRequest(id) == [method |-> "wallet_switchEthereumChain", chainId |-> DesiredHex(id)]
AddRequest(id) == [method |-> "wallet_addEthereumChain", chainId |-> DesiredHex(id)]

\* A lookup that falls back to the first network when nothing matches.
FindNetworkOrFirst(chainId) ==
    LET hits == {i \in 1..Len(NetworkList) : NetworkList[i].id = chainId} IN
    IF hits = {} THEN 1 ELSE CHOOSE i \in hits : \A j \in hits : i <= j

\* networks.find(n => Number(n.id) === chainId): the index of the first match,
\* 0 when there is none.
FindNetwork(chainId) ==
    LET hits == {i \in 1..Len(NetworkList) : NetworkList[i].id = chainId} IN
    IF hits = {} THEN 0 ELSE CHOOSE i \in hits : \A j \in hits : i <= j

NoError == [code |-> 0, message |-> ""]

\* A selectNetwork call that settled before any wallet request.
Rejected(chainId, err) ==
    [op |-> "selectNetwork", pc |-> "settled", chainId |-> chainId,
     requests |-> << >>, replies |-> << >>,
     outcome |-> "rejected", error |-> err, hadProvider |-> provider]

\* The policy test with the developer-mode flag read the wrong way round.
PolicyBlocksInverted(i) == developerMode /\ NetworkList[i].testnet

\* `!this.developerMode && network.testnet`
PolicyBlocks(i) == ~developerMode /\ NetworkList[i].testnet

Ok == [ok |-> TRUE, err |-> NoError]
Failed(err) == [ok |-> FALSE, err |-> err]

\* selectNetwork(chainId) up to its first await: the lookup, the policy test
\* and changeNetwork's provider test and first request.
SelectNetworkStart(chainId) ==
    LET i == FindNetwork(chainId) IN
    IF i = 0
    THEN Rejected(chainId, NotFoundError)
    ELSE IF PolicyBlocks(i)
    THEN Rejected(chainId, PolicyError)
    ELSE IF ~provider
    THEN Rejected(chainId, NoProviderError)
    ELSE [op |-> "selectNetwork", pc |-> "switch1", chainId |-> chainId,
          requests |-> << SwitchRequest(NetworkList[i].id) >>,
          replies |-> << >>,
          outcome |-> "pending", error |-> NoError,
          hadProvider |-> provider]

\* A selectNetwork that takes the requested chain for the current one without
\* waiting for the SDK's event.
selectNetworkOptimistic(chainId) ==
    /\ CanCall
    /\ call' = SelectNetworkStart(chainId)
    /\ networkId' = Num(chainId)
    /\ UNCHANGED << developerMode, subscribers, pending, lastRaw, lastDispatch,
                    lastChanged, sdkVars, storageVars >>

selectNetwork(chainId) ==
    /\ CanCall
    /\ call' = SelectNetworkStart(chainId)
    /\ UNCHANGED << serviceVars, sdkVars, storageVars >>

\* changeNetwork with the add-chain fallback taken on any failure of the first
\* switch.
AfterReplyAddOnAnyError(c, r) ==
    LET d == [c EXCEPT !.replies = Append(@, r)] IN
    CASE c.pc = "switch1" /\ r.ok ->
           [d EXCEPT !.pc = "settled", !.outcome = "resolved"]
      [] c.pc = "switch1" /\ ~r.ok ->
           [d EXCEPT !.pc = "add", !.requests = Append(@, AddRequest(c.chainId))]
      [] c.pc = "add" /\ r.ok ->
           [d EXCEPT !.pc = "switch2", !.requests = Append(@, SwitchRequest(c.chainId))]
      [] c.pc = "switch2" /\ r.ok ->
           [d EXCEPT !.pc = "settled", !.outcome = "resolved"]
      [] OTHER ->
           [d EXCEPT !.pc = "settled", !.outcome = "rejected", !.error = r.err]

\* changeNetwork after the request it awaited was answered with reply r.
AfterReply(c, r) ==
    LET d == [c EXCEPT !.replies = Append(@, r)] IN
    CASE c.pc = "switch1" /\ r.ok ->
           [d EXCEPT !.pc = "settled", !.outcome = "resolved"]
      [] c.pc = "switch1" /\ ~r.ok /\ IsUnrecognizedChain(r.err) ->
           [d EXCEPT !.pc = "add", !.requests = Append(@, AddRequest(c.chainId))]
      [] c.pc = "add" /\ r.ok ->
           [d EXCEPT !.pc = "switch2", !.requests = Append(@, SwitchRequest(c.chainId))]
      [] c.pc = "switch2" /\ r.ok ->
           [d EXCEPT !.pc = "settled", !.outcome = "resolved"]
      [] OTHER ->
           [d EXCEPT !.pc = "settled", !.outcome = "rejected", !.error = r.err]

\* The wallet answers the request changeNetwork is awaiting.
walletRespond(r) ==
    /\ call.op \in {"selectNetwork", "SmartDapp.selectNetwork"}
    /\ call.pc \in {"switch1", "add", "switch2"}
    /\ call' = AfterReply(call, r)
    /\ UNCHANGED << serviceVars, sdkVars, storageVars >>

WalletReplies == {Ok} \cup {Failed(e) : e \in WalletErrors}

\* Chain ids an application may pass to selectNetwork; 999 is not configured.
ChainIdInputs == {1, 137, 5, 999}

(***************************************************************************)
(* Web3InteropService: getAvailableNetworks, getSigner, the modal          *)
(***************************************************************************)
NotTestnet(n) == ~n.testnet

\* The list with no filter applied in either mode.
AvailableNetworksUnfiltered == NetworkList

\* The list getAvailableNetworks() returns.
AvailableNetworks ==
    IF developerMode THEN NetworkList ELSE SelectSeq(NetworkList, NotTestnet)

getAvailableNetworks ==
    /\ CanCall
    /\ call' = [op |-> "getAvailableNetworks", pc |-> "settled",
                outcome |-> "returned", value |-> AvailableNetworks]
    /\ UNCHANGED << serviceVars, sdkVars, storageVars >>

\* getSigner() called by the application: rejects at once without a provider,
\* otherwise awaits the wallet's signer.
getSigner ==
    /\ CanCall
    /\ call' = IF ~provider
               THEN [op |-> "getSigner", pc |-> "settled", outcome |-> "rejected",
                     error |-> NoProviderError.message]
               ELSE [op |-> "getSigner", pc |-> "signer", outcome |-> "pending",
                     error |-> ""]
    /\ UNCHANGED << serviceVars, sdkVars, storageVars >>

\* The wallet settles the signer request of a direct getSigner() call.
getSignerSettle(ok) ==
    /\ call.op = "getSigner"
    /\ call.pc = "signer"
    /\ call' = IF ok
               THEN [call EXCEPT !.pc = "settled", !.outcome = "resolved"]
               ELSE [call EXCEPT !.pc = "settled", !.outcome = "rejected",
                                 !.error = "signer refused"]
    /\ UNCHANGED << serviceVars, sdkVars, storageVars >>

\* silentOpenAppKitModal / silentCloseAppKitModal: appKit.open() / close().
silentOpenAppKitModal ==
    /\ CanCall
    /\ modalOpen' = TRUE
    /\ call' = [op |-> "silentOpenAppKitModal", pc |-> "settled",
                outcome |-> "resolved"]
    /\ UNCHANGED << serviceVars, provider, readNetwork, storageVars >>

silentCloseAppKitModal ==
    /\ CanCall
    /\ modalOpen' = FALSE
    /\ call' = [op |-> "silentCloseAppKitModal", pc |-> "settled",
                outcome |-> "resolved"]
    /\ UNCHANGED << serviceVars, provider, readNetwork, storageVars >>

(***************************************************************************)
(* Storage adapters and StorageService                                     *)
(***************************************************************************)
Str(s) == [t |-> "string", v |-> s]
Bool(b) == [t |-> "boolean", v |-> b]

\* A plain object, as the ordered list of its own entries, and an array.
Obj(entries) == [t |-> "object", e |-> entries]
Arr(items) == [t |-> "array", e |-> items]
Field(k, v) == [k |-> k, v |-> v]

\* JavaScript truthiness of a stored value, as tested by `if (value)` and
\* `if (item)`.
TruthyValue(x) ==
    CASE x.t = "string" -> x.v # ""
      [] x.t = "number" -> x.v # 0
      [] x.t = "boolean" -> x.v
      [] x.t \in {"object", "array"} -> TRUE
      [] OTHER -> FALSE

\* Values an application passes to storeMetadata.
StringValues == {Str(""), Str("v1"), Str("v2")}

\* Records an application keeps in a stored collection.
Records ==
    { Obj(<< Field("symbol", Str("USDC")), Field("decimals", Num(6)) >>),
      Obj(<< Field("symbol", Str("eth")), Field("decimals", Num(0)) >>),
      Obj(<< Field("name", Str("Dai")),
             Field("properties",
                   Obj(<< Field("decimals", Num(0)), Field("active", Bool(FALSE)),
                          Field("tag", Str("Stable")) >>)) >>),
      Obj(<< Field("symbol", Str("usdc")),
             Field("properties", Obj(<< Field("tag", Str("Stable")) >>)) >>) }

\* Records a stored collection may hold.
MaxRecords == 2

\* The collections an application stores: arrays of records.
Collections ==
    { Arr(q) : q \in UNION { [1..n -> Records] : n \in 0..MaxRecords } }

\* The values JSON texts in storage stand for.
JsonValues == StringValues \cup Collections

\* JSON.stringify of a value, as text.
RECURSIVE JsonStringify(_), JsonMembers(_), JsonElements(_)
JsonMembers(entries) ==
    IF entries = << >> THEN ""
    ELSE "\"" \o Head(entries).k \o "\":" \o JsonStringify(Head(entries).v)
         \o (IF Len(entries) > 1 THEN "," ELSE "") \o JsonMembers(Tail(entries))

JsonElements(items) ==
    IF items = << >> THEN ""
    ELSE JsonStringify(Head(items))
         \o (IF Len(items) > 1 THEN "," ELSE "") \o JsonElements(Tail(items))

JsonStringify(x) ==
    CASE x.t = "string" -> "\"" \o x.v \o "\""
      [] x.t = "number" -> ToString(x.v)
      [] x.t = "boolean" -> (IF x.v THEN "true" ELSE "false")
      [] x.t = "object" -> "{" \o JsonMembers(x.e) \o "}"
      [] x.t = "array" -> "[" \o JsonElements(x.e) \o "]"
      [] OTHER -> "null"

\* Whether JSON.parse accepts the text (otherwise it throws a SyntaxError).
IsJsonText(text) == \E x \in JsonValues : JsonStringify(x) = text

\* JSON.parse of a text JSON.stringify produced from one of the values.
JsonParse(text) == CHOOSE x \in JsonValues : JsonStringify(x) = text

\* String(value): what localStorage.setItem keeps of a value given as it is.
ToText(x) ==
    CASE x.t = "string" -> x.v
      [] x.t = "number" -> ToString(x.v)
      [] x.t = "boolean" -> (IF x.v THEN "true" ELSE "false")
      [] x.t = "object" -> "[object Object]"
      [] OTHER -> "null"

HasItem(key) == key \in DOMAIN localStorage

\* adapter.setItem: the new content of localStorage.
SetItem(key, value) ==
    LET text == IF adapter = "json" THEN JsonStringify(value) ELSE ToText(value) IN
    [k \in DOMAIN localStorage \cup {key} |->
        IF k = key THEN text ELSE localStorage[k]]

\* adapter.getItem: a value, or Null.
GetItem(key) ==
    IF ~HasItem(key) THEN Null
    ELSE IF adapter = "json"
         THEN (IF localStorage[key] # "" THEN JsonParse(localStorage[key]) ELSE Null)
         ELSE Str(localStorage[key])

\* A storage key with the network id left out.
StorageKeyNoNetwork(id, key) == "metadata_" \o key

\* A storage key with nothing between the network id and the caller's key.
StorageKeyNoSeparator(id, key) == "metadata_" \o ToString(id.v) \o key

\* `metadata_${networkId}_${key}`
StorageKey(id, key) == "metadata_" \o ToString(id.v) \o "_" \o key

\* One call of a method of the adapter, with the key it was given.
AdapterCall(method, key) == [method |-> method, key |-> key]

storeMetadata(key, value) ==
    /\ CanCall
    /\ IF ~Truthy(networkId)
       THEN /\ call' = [op |-> "storeMetadata", pc |-> "settled", key |-> key,
                        net |-> networkId, access |-> << >>,
                        result |-> Threw("No network selected")]
            /\ UNCHANGED << localStorage, stored >>
       ELSE /\ localStorage' = SetItem(StorageKey(networkId, key), value)
            /\ stored' = [c \in DOMAIN stored \cup {<<networkId.v, key>>} |->
                             IF c = <<networkId.v, key>> THEN value ELSE stored[c]]
            /\ call' = [op |-> "storeMetadata", pc |-> "settled", key |-> key,
                        net |-> networkId,
                        access |-> << AdapterCall("setItem", StorageKey(networkId, key)) >>,
                        result |-> Returned(Null)]
    /\ UNCHANGED << serviceVars, sdkVars, adapter >>

\* The result of retrieveMetadata(key) in the current state.
RetrieveResult(key) ==
    IF ~Truthy(networkId) THEN Threw("No network selected")
    ELSE LET value == GetItem(StorageKey(networkId, key)) IN
         IF TruthyValue(value) THEN Returned(value)
         ELSE Threw("No metadata found")

\* The adapter calls retrieveMetadata(key) makes in the current state.
RetrieveAccess(key) ==
    IF ~Truthy(networkId) THEN << >>
    ELSE << AdapterCall("getItem", StorageKey(networkId, key)) >>

retrieveMetadata(key) ==
    /\ CanCall
    /\ call' = [op |-> "retrieveMetadata", pc |-> "settled", key |-> key,
                net |-> networkId, access |-> RetrieveAccess(key),
                result |-> RetrieveResult(key)]
    /\ UNCHANGED << serviceVars, sdkVars, storageVars >>

MetadataKeys == {"tokens", "prefs"}

\* The network id StorageService derives its keys from.
StorageNetworkId == networkId

(***************************************************************************)
(* StorageService.searchInObjects / findContentByKeyAndQuery               *)
(***************************************************************************)
LowerChar(c) ==
    CASE c = "A" -> "a" [] c = "B" -> "b" [] c = "C" -> "c" [] c = "D" -> "d"
      [] c = "E" -> "e" [] c = "F" -> "f" [] c = "G" -> "g" [] c = "H" -> "h"
      [] c = "I" -> "i" [] c = "J" -> "j" [] c = "K" -> "k" [] c = "L" -> "l"
      [] c = "M" -> "m" [] c = "N" -> "n" [] c = "O" -> "o" [] c = "P" -> "p"
      [] c = "Q" -> "q" [] c = "R" -> "r" [] c = "S" -> "s" [] c = "T" -> "t"
      [] c = "U" -> "u" [] c = "V" -> "v" [] c = "W" -> "w" [] c = "X" -> "x"
      [] c = "Y" -> "y" [] c = "Z" -> "z" [] OTHER -> c

\* String.prototype.toLowerCase
RECURSIVE ToLowerCase(_)
ToLowerCase(str) ==
    IF str = "" THEN ""
    ELSE LowerChar(SubSeq(str, 1, 1)) \o ToLowerCase(SubSeq(str, 2, Len(str)))

\* String.prototype.includes
Includes(str, part) ==
    \E i \in 1..(Len(str) + 1) :
        i + Len(part) - 1 <= Len(str) /\ SubSeq(str, i, i + Len(part) - 1) = part

\* Object.values of an array or of a plain object.
ValuesOf(x) ==
    IF x.t = "array" THEN x.e ELSE [i \in 1..Len(x.e) |-> x.e[i].v]

\* The nested-object branch: some value of the nested object is truthy and
\* its string form, lower-cased, is the lower-cased query.
NestedMatches(value, lowerQuery) ==
    \E i \in 1..Len(value.e) :
        /\ TruthyValue(value.e[i].v)
        /\ ToLowerCase(ToText(value.e[i].v)) = lowerQuery

\* The test one entry's value undergoes in the inner loop.
FieldMatches(value, lowerQuery) ==
    IF value = Null THEN FALSE
    ELSE IF value.t = "object" THEN NestedMatches(value, lowerQuery)
    ELSE ToLowerCase(ToText(value)) = lowerQuery

\* Whether the inner loop returns the record (a plain object).
RecordMatches(obj, lowerQuery) ==
    \E i \in 1..Len(obj.e) : FieldMatches(obj.e[i].v, lowerQuery)

\* searchInObjects: the first record of the collection, in iteration order,
\* that matches; Null when there is none.  A value that is no object is
\* returned itself when it is a string that contains the query.
searchInObjects(objects, query) ==
    IF ~TruthyValue(objects) \/ objects.t \notin {"object", "array"}
    THEN (IF objects.t = "string" /\ Includes(objects.v, query)
          THEN objects ELSE Null)
    ELSE LET items == ValuesOf(objects)
             hits == {i \in 1..Len(items) :
                         RecordMatches(items[i], ToLowerCase(query))} IN
         IF hits = {} THEN Null
         ELSE items[CHOOSE i \in hits : \A j \in hits : i <= j]

\* retrieveItems: JSON.parse of what retrieveMetadata returned, or the value
\* itself when JSON.parse throws (it does on the string form of an array of
\* records).
ParseOrKeep(value) ==
    IF value.t = "string" /\ IsJsonText(value.v) THEN JsonParse(value.v)
    ELSE value

findContentByKeyAndQuery(key, query) ==
    /\ CanCall
    /\ LET r == RetrieveResult(key)
           items == IF r.ok THEN ParseOrKeep(r.value) ELSE Null
           found == IF r.ok THEN searchInObjects(items, query) ELSE Null IN
       call' = [op |-> "findContentByKeyAndQuery", pc |-> "settled",
                key |-> key, query |-> query, net |-> networkId,
                access |-> RetrieveAccess(key), items |-> items,
                outcome |-> IF r.ok /\ TruthyValue(found)
                            THEN "resolved" ELSE "rejected",
                value |-> found,
                error |-> IF ~r.ok THEN r.error
                          ELSE IF TruthyValue(found) THEN ""
                          ELSE "No match found"]
    /\ UNCHANGED << serviceVars, sdkVars, storageVars >>

\* Queries an application searches with.
Queries == {"USDC", "usdc", "ETH", "0", "false", "stable"}

\* The value an application hands storeMetadata to keep a collection: the
\* collection with the JSON adapter, its JSON text with the raw one.
AsStored(c) == IF adapter = "json" THEN c ELSE Str(JsonStringify(c))

(***************************************************************************)
(* ContractService                                                         *)
(***************************************************************************)
\* Web3InteropService.getNetworkId(): Number(this.readProvider._network.chainId).
\* The read provider is built on the first configured network's RPC url; its
\* _network is not available until the provider has detected it.
getNetworkId ==
    IF readNetwork = Null THEN Threw("network is not available yet")
    ELSE Returned(readNetwork)

\* The read provider detects the chain behind networks[0]'s RPC url.
ReadProviderDetect ==
    /\ readNetwork = Null
    /\ readNetwork' = Num(NetworkList[1].id)
    /\ UNCHANGED << serviceVars, provider, modalOpen, storageVars, call >>

\* Names that have an ABI.
Abis == {"Router", "ERC20"}

\* ContractService.contracts: network id -> contract name -> contract.  An
\* address of "" is a contract configured without one.
ContractsConfig ==
    [n \in {1, 137} |->
        IF n = 1
        THEN [c \in {"Router", "Legacy", "Unset"} |->
                CASE c = "Router" -> [name |-> "Router", address |-> "0xR1"]
                  [] c = "Legacy" -> [name |-> "LegacyAbi", address |-> "0xL1"]
                  [] c = "Unset" -> [name |-> "Router", address |-> ""]]
        ELSE [c \in {"Router"} |-> [name |-> "Router", address |-> "0xR137"]]]

\* No abiName argument.
NoAbi == ""

\* getAbi
getAbi(abiName) ==
    IF abiName \in Abis THEN Returned(abiName)
    ELSE Threw("ABI not found: " \o abiName)

\* getContractInfo
getContractInfo(net, contractName) ==
    IF net \notin DOMAIN ContractsConfig
    THEN Threw("No contracts found for network ID")
    ELSE IF contractName \notin DOMAIN ContractsConfig[net]
    THEN Threw("Contract not found: " \o contractName)
    ELSE Returned(ContractsConfig[net][contractName])

\* The target resolution sendTransaction and readCall share: "ok" with address
\* and abi, "reject" (reject() was called) or "throw" (an exception).
ResolveTarget(net, contractNameOrAddress, abiName) ==
    IF abiName # NoAbi
    THEN LET a == getAbi(abiName) IN
         IF a.ok
         THEN [kind |-> "ok", address |-> contractNameOrAddress, abi |-> a.value,
               error |-> ""]
         ELSE [kind |-> "throw", address |-> "", abi |-> "", error |-> a.error]
    ELSE LET info == getContractInfo(net, contractNameOrAddress) IN
         IF ~info.ok
         THEN [kind |-> "throw", address |-> "", abi |-> "", error |-> info.error]
         ELSE IF info.value.address = ""
         THEN [kind |-> "reject", address |-> "", abi |-> "",
               error |-> "Contract address not configured"]
         ELSE LET a == getAbi(info.value.name) IN
              IF a.ok
              THEN [kind |-> "ok", address |-> info.value.address, abi |-> a.value,
                    error |-> ""]
              ELSE [kind |-> "throw", address |-> "", abi |-> "", error |-> a.error]

\* The record of a contract operation.  An exception inside the async executor
\* of `new Promise(async (resolve, reject) => ...)` rejects the executor's own
\* promise, which nobody holds: the promise handed to the caller stays pending
\* for ever ("stuck").
ContractCall(op, target, abiName, pc, outcome, error, net, address, abi, effects) ==
    [op |-> op, target |-> target, abiName |-> abiName, pc |-> pc,
     outcome |-> outcome, error |-> error, net |-> net, address |-> address,
     abi |-> abi, effects |-> effects]

Stuck(op, target, abiName, net, error) ==
    ContractCall(op, target, abiName, "settled", "stuck", error, net, "", "", << >>)

\* The index in getAvailableNetworks() of the network with this id, 0 if none.
FindAvailable(id) ==
    LET hits == {i \in 1..Len(AvailableNetworks) : AvailableNetworks[i].id = id} IN
    IF hits = {} THEN 0 ELSE CHOOSE i \in hits : \A j \in hits : i <= j

\* sendTransaction up to its first await (the signer).
sendTransaction(target, abiName) ==
    /\ CanCall
    /\ LET n == getNetworkId IN
       call' =
         IF ~n.ok THEN Stuck("sendTransaction", target, abiName, Null, n.error)
         ELSE LET r == ResolveTarget(n.value.v, target, abiName) IN
              CASE r.kind = "throw" ->
                     Stuck("sendTransaction", target, abiName, n.value, r.error)
                [] r.kind = "reject" ->
                     ContractCall("sendTransaction", target, abiName, "settled",
                                  "rejected", r.error, n.value, "", "", << >>)
                [] OTHER ->
                     IF ~provider
                     THEN ContractCall("sendTransaction", target, abiName,
                                       "settled", "stuck", NoProviderError.message,
                                       n.value, r.address, r.abi, << >>)
                     ELSE ContractCall("sendTransaction", target, abiName, "signer",
                                       "pending", "", n.value, r.address, r.abi,
                                       << [kind |-> "getSigner"] >>)
    /\ UNCHANGED << serviceVars, sdkVars, storageVars >>

\* readCall up to its call of the contract through a fresh JsonRpcProvider.
readCall(target, staticCall, abiName) ==
    /\ CanCall
    /\ LET n == getNetworkId IN
       call' =
         IF ~n.ok THEN Stuck("readCall", target, abiName, Null, n.error)
         ELSE LET r == ResolveTarget(n.value.v, target, abiName)
                  i == FindAvailable(n.value.v) IN
              CASE r.kind = "throw" ->
                     Stuck("readCall", target, abiName, n.value, r.error)
                [] r.kind = "reject" ->
                     ContractCall("readCall", target, abiName, "settled",
                                  "rejected", r.error, n.value, "", "", << >>)
                [] OTHER ->
                     IF i = 0
                     THEN ContractCall("readCall", target, abiName, "settled",
                                       "stuck", "Network not found", n.value,
                                       r.address, r.abi, << >>)
                     ELSE ContractCall("readCall", target, abiName, "read",
                                       "pending", "", n.value, r.address, r.abi,
                                       << [kind |-> "call",
                                           rpc |-> AvailableNetworks[i].rpc,
                                           static |-> staticCall] >>)
    /\ UNCHANGED << serviceVars, sdkVars, storageVars >>

\* Gas estimates a node may answer with.
GasEstimates == {21000, 50000}

\* A gas limit that ignores the estimate.
GasLimitFixed(gasEstimate) == 21000

\* The gas limit of the submitted transaction: `gasLimit: gasEstimate`.
GasLimitOf(gasEstimate) == gasEstimate

\* The step a contract operation awaits is answered: fulfilled (with a gas
\* estimate where one is asked for) or rejected.
contractSettle(ok, gas) ==
    /\ call.op \in {"sendTransaction", "readCall"}
    /\ call.pc \in {"signer", "gas", "send", "read"}
    /\ call' =
         IF ~ok
         THEN [call EXCEPT !.pc = "settled", !.outcome = "stuck",
                           !.error = "rejected at " \o call.pc]
         ELSE CASE call.pc = "signer" ->
                     [call EXCEPT !.pc = "gas",
                        !.effects = Append(@, [kind |-> "estimateGas"])]
                [] call.pc = "gas" ->
                     [call EXCEPT !.pc = "send",
                        !.effects = @ \o << [kind |-> "gasEstimate", value |-> gas],
                                            [kind |-> "send",
                                             gasLimit |-> GasLimitOf(gas)] >>]
                [] OTHER ->
                     [call EXCEPT !.pc = "settled", !.outcome = "resolved"]
    /\ UNCHANGED << serviceVars, sdkVars, storageVars >>

\* encodeFunctionData: synchronous; with an abiName argument the ABI is looked
\* up under the first argument.
encodeFunctionData(contractNameOrAbiName, abiName) ==
    /\ CanCall
    /\ LET n == getNetworkId
           a == IF abiName # NoAbi THEN getAbi(contractNameOrAbiName)
                ELSE IF ~n.ok THEN n
                ELSE LET info == getContractInfo(n.value.v, contractNameOrAbiName) IN
                     IF ~info.ok THEN info ELSE getAbi(info.value.name)
           result == IF ~a.ok THEN a
                     ELSE IF ~n.ok THEN n
                     ELSE IF FindAvailable(n.value.v) = 0
                     THEN Threw("Network not found")
                     ELSE Returned([abi |-> a.value]) IN
       call' = [op |-> "encodeFunctionData", pc |-> "settled",
                target |-> contractNameOrAbiName, abiName |-> abiName,
                net |-> IF n.ok THEN n.value ELSE Null,
                result |-> result]
    /\ UNCHANGED << serviceVars, sdkVars, storageVars >>

\* Arguments an application passes to the contract operations.
ContractTargets == {"Router", "Legacy", "Unset", "Missing", "0xRAW"}
AbiNames == {NoAbi, "ERC20", "Nope"}

\* The network switches the storage service is exercised under.
StorageEvents ==
    { [event |-> "SWITCH_NETWORK", network |-> c] :
        c \in { Caip("eip155", <<"1">>), Caip("eip155", <<"1", "3", "7">>),
                Caip("solana", <<"m">>) } }

(***************************************************************************)
(* StorageService.createCacheKey                                           *)
(***************************************************************************)
\* Array.prototype.join
RECURSIVE Join(_, _)
Join(parts, sep) ==
    IF parts = << >> THEN ""
    ELSE IF Len(parts) = 1 THEN parts[1]
    ELSE parts[1] \o sep \o Join(Tail(parts), sep)

\* The key createCacheKey returns; the function reads nothing but its
\* arguments.
CacheKey(key, additionalParams) ==
    key \o (IF Len(additionalParams) > 0
            THEN ":" \o Join(additionalParams, ":") ELSE "")

createCacheKey(key, additionalParams) ==
    /\ CanCall
    /\ call' = [op |-> "createCacheKey", pc |-> "settled", key |-> key,
                params |-> additionalParams, net |-> networkId,
                result |-> CacheKey(key, additionalParams)]
    /\ UNCHANGED << serviceVars, sdkVars, storageVars >>

\* Keys an application may choose that contain digits and the separator.
TrickyKeys == {"x", "37_x", "_x"}

(***************************************************************************)
(* SmartDapp: the facade                                                   *)
(***************************************************************************)
\* `Number(n.id) === chainId` for an argument of any type: strict equality
\* holds for a number of the same value only.
FindNetworkValue(x) == IF x.t = "number" THEN FindNetwork(x.v) ELSE 0

\* SmartDapp.selectNetwork(chainId: string): the string is handed to the
\* service's selectNetwork as it is.
SmartDappSelectNetwork(text) ==
    /\ CanCall
    /\ LET i == FindNetworkValue(Str(text))
           facade == [op |-> "SmartDapp.selectNetwork", chainIdText |-> text] IN
       call' = IF i = 0
               THEN facade @@ Rejected(0, NotFoundError)
               ELSE facade @@ SelectNetworkStart(NetworkList[i].id)
    /\ UNCHANGED << serviceVars, sdkVars, storageVars >>

\* Chain ids an application passes to the facade, as strings.
ChainIdTexts == {"1", "137", "5", "999"}

\* SmartDapp.subscribeToChanges delegates to the service.
SmartDappSubscribeToChanges(cb) ==
    /\ CanCall
    /\ subscribers' = SetAdd(subscribers, cb)
    /\ call' = [op |-> "SmartDapp.subscribeToChanges", pc |-> "settled", cb |-> cb]
    /\ UNCHANGED << developerMode, networkId, pending, lastRaw, lastDispatch,
                    lastChanged, sdkVars, storageVars >>

\* The values the facade's constructor has at hand.
ConfigNetworks == [t |-> "networksMap"]
ConfigApiUrls == [t |-> "apiUrls"]
AppkitConfig == [t |-> "appkitConfiguration"]
Undefined == [t |-> "undefined"]

\* The arguments of `new Web3InteropService(...)` in the facade's constructor.
FacadeArguments(onlyMainnet) == << ConfigNetworks, AppkitConfig, Bool(onlyMainnet) >>

\* Positional binding to constructor(apiUrls, networksMap, appkitConfig,
\* developerMode = false): a missing argument is undefined, and the default
\* applies to an undefined developerMode.
Argument(args, i) == IF i <= Len(args) THEN args[i] ELSE Undefined

BindConstructor(args) ==
    [apiUrls |-> Argument(args, 1),
     networksMap |-> Argument(args, 2),
     appkitConfig |-> Argument(args, 3),
     developerMode |-> IF Argument(args, 4) = Undefined THEN Bool(FALSE)
                       ELSE Argument(args, 4)]

\* new SmartDapp(config, onlyMainnet).  When what is bound to networksMap is
\* not the network map, whether the SDK accepts what it is given and the
\* constructor returns, or the constructor throws, is the SDK's affair: both
\* happen here.  A constructor that returns leaves a fresh service.
SmartDappConstruct(onlyMainnet, sdkAccepts) ==
    LET bound == BindConstructor(FacadeArguments(onlyMainnet)) IN
    /\ CanCall
    /\ bound.networksMap = ConfigNetworks => sdkAccepts
    /\ call' = [op |-> "new SmartDapp", pc |-> "settled",
                onlyMainnet |-> onlyMainnet, bound |-> bound,
                outcome |-> IF sdkAccepts THEN "returned" ELSE "threw"]
    /\ IF sdkAccepts
       THEN /\ developerMode' = bound.developerMode.v
            /\ networkId' = Null
            /\ subscribers' = << >>
            /\ pending' = 0
            /\ lastRaw' = NoEvent
            /\ lastDispatch' = NoDispatch
            /\ lastChanged' = Null
       ELSE UNCHANGED serviceVars
    /\ UNCHANGED << sdkVars, storageVars >>

(***************************************************************************)
(* Specifications                                                          *)
(***************************************************************************)
\* The service as constructed: raw events reach the handler through the
\* reference registered with the SDK.
Next ==
    \/ \E cb \in Callbacks : subscribeToChanges(cb)
    \/ \E ev \in RawEvents : SdkEmit(ev)
    \/ ProviderAttach
    \/ ProviderDetach
    \/ \E c \in ChainIdInputs : selectNetwork(c)
    \/ \E r \in WalletReplies : walletRespond(r)

Spec == Init /\ [][Next]_vars

\* The handler run as a method of the service instance.
NextMethod ==
    \/ \E cb \in Callbacks : subscribeToChanges(cb)
    \/ \E ev \in RawEvents : MethodEmit(ev)
    \/ \E ok \in BOOLEAN, a \in Addresses : SignerSettle(ok, a)
    \/ ProviderAttach
    \/ ProviderDetach
    \/ ReadProviderDetect

SpecMethod == Init /\ [][NextMethod]_vars

\* The storage service over a service whose handler runs on the instance.
NextStorage ==
    \/ \E ev \in StorageEvents : MethodEmit(ev)
    \/ \E k \in MetadataKeys, v \in StringValues : storeMetadata(k, v)
    \/ \E k \in MetadataKeys : retrieveMetadata(k)

\* The host application may hand in either adapter.
InitStorage ==
    /\ developerMode \in BOOLEAN
    /\ provider = FALSE
    /\ networkId = Null
    /\ subscribers = << >>
    /\ pending = 0
    /\ lastRaw = NoEvent
    /\ lastDispatch = NoDispatch
    /\ lastChanged = Null
    /\ readNetwork = Null
    /\ modalOpen = FALSE
    /\ adapter \in {"json", "raw"}
    /\ localStorage = << >>
    /\ stored = << >>
    /\ call = Idle

SpecStorage == InitStorage /\ [][NextStorage]_vars

\* The search over collections stored on network 1.
NextSearch ==
    \/ MethodEmit([event |-> "SWITCH_NETWORK", network |-> Caip("eip155", <<"1">>)])
    \/ \E c \in Collections : storeMetadata("tokens", AsStored(c))
    \/ \E q \in Queries : findContentByKeyAndQuery("tokens", q)

SpecSearch == InitStorage /\ [][NextSearch]_vars

\* Every operation of the services side by side, the handler run on the
\* instance, each over a few inputs.
FrameEvents ==
    { [event |-> "CONNECT_SUCCESS"], [event |-> "DISCONNECT_SUCCESS"],
      [event |-> "MODAL_OPEN"],
      [event |-> "SWITCH_NETWORK", network |-> Caip("eip155", <<"1">>)] }

FrameReplies ==
    { Ok,
      Failed([code |-> 4001, message |-> "User rejected the request."]),
      Failed([code |-> UnrecognizedChainCode, message |-> "Chain missing"]) }

NextFrame ==
    \/ subscribeToChanges("cbA")
    \/ \E ev \in FrameEvents : MethodEmit(ev)
    \/ \E ok \in BOOLEAN : SignerSettle(ok, "0xA1")
    \/ ProviderAttach
    \/ ProviderDetach
    \/ ReadProviderDetect
    \/ \E c \in {137, 999} : selectNetwork(c)
    \/ \E r \in FrameReplies : walletRespond(r)
    \/ getAvailableNetworks
    \/ getSigner
    \/ \E ok \in BOOLEAN : getSignerSettle(ok)
    \/ silentOpenAppKitModal
    \/ silentCloseAppKitModal
    \/ storeMetadata("tokens", Str("v1"))
    \/ retrieveMetadata("tokens")
    \/ sendTransaction("Router", NoAbi)
    \/ readCall("Router", FALSE, NoAbi)
    \/ \E ok \in BOOLEAN : contractSettle(ok, 21000)
    \/ encodeFunctionData("Router", NoAbi)

SpecFrame == Init /\ [][NextFrame]_vars

\* The contract service over the read provider and the wallet, next to
\* selectNetwork.
NextContract ==
    \/ ReadProviderDetect
    \/ ProviderAttach
    \/ ProviderDetach
    \/ \E t \in ContractTargets, a \in AbiNames : sendTransaction(t, a)
    \/ \E t \in ContractTargets, b \in BOOLEAN, a \in AbiNames : readCall(t, b, a)
    \/ \E ok \in BOOLEAN, g \in GasEstimates : contractSettle(ok, g)
    \/ \E t \in ContractTargets, a \in AbiNames : encodeFunctionData(t, a)
    \/ \E c \in {137, 999} : selectNetwork(c)
    \/ \E r \in FrameReplies : walletRespond(r)

SpecContract == Init /\ [][NextContract]_vars

\* The facade over the service: construction and selectNetwork.
NextFacade ==
    \/ \E b, a \in BOOLEAN : SmartDappConstruct(b, a)
    \/ \E t \in ChainIdTexts : SmartDappSelectNetwork(t)
    \/ \E c \in ChainIdInputs : selectNetwork(c)
    \/ \E r \in FrameReplies : walletRespond(r)
    \/ ProviderAttach
    \/ ProviderDetach

SpecFacade == Init /\ [][NextFacade]_vars

\* Registration through the facade next to the events that cause dispatches.
NextSubscribe ==
    \/ \E cb \in Callbacks : SmartDappSubscribeToChanges(cb)
    \/ MethodEmit([event |-> "DISCONNECT_SUCCESS"])
    \/ MethodEmit([event |-> "SWITCH_NETWORK", network |-> Caip("eip155", <<"1">>)])

SpecSubscribe == Init /\ [][NextSubscribe]_vars

\* Storage and cache keys on two networks whose ids share a prefix.
NextKeys ==
    \/ MethodEmit([event |-> "SWITCH_NETWORK", network |-> Caip("eip155", <<"1">>)])
    \/ MethodEmit([event |-> "SWITCH_NETWORK",
                   network |-> Caip("eip155", <<"1", "3", "7">>)])
    \/ \E k \in TrickyKeys : storeMetadata(k, Str("v1"))
    \/ \E k \in TrickyKeys : retrieveMetadata(k)
    \/ \E p \in {<< >>, << "0xA1" >>} : createCacheKey("balances", p)

SpecKeys == InitStorage /\ [][NextKeys]_vars

\* readCall next to the raw network switches that make a network active.
ReadEvents ==
    { [event |-> "SWITCH_NETWORK", network |-> c] :
        c \in { Caip("eip155", <<"1">>), Caip("eip155", <<"1", "3", "7">>),
                Caip("eip155", <<"5">>) } }

NextRead ==
    \/ subscribeToChanges("cbA")
    \/ \E ev \in ReadEvents : MethodEmit(ev)
    \/ ReadProviderDetect
    \/ \E t \in {"Router", "0xRAW"}, b \in BOOLEAN, a \in {NoAbi, "ERC20"} :
          readCall(t, b, a)
    \/ \E ok \in BOOLEAN, g \in GasEstimates : contractSettle(ok, g)

SpecRead == Init /\ [][NextRead]_vars

(***************************************************************************)
(* Claims                                                                  *)
(***************************************************************************)
Configured(c) == \E i \in 1..Len(NetworkList) : NetworkList[i].id = c
TestnetId(c) == \E i \in 1..Len(NetworkList) : NetworkList[i].id = c /\ NetworkList[i].testnet

\* The callbacks of subs each got exactly one call of run, in order, carrying
\* notification n and payload data.
DeliveredToAll(run, subs, n, data) ==
    /\ run.n = n
    /\ Len(run.calls) = Len(subs)
    /\ \A i \in 1..Len(subs) :
          /\ run.calls[i].cb = subs[i]
          /\ run.calls[i].n = n
          /\ run.calls[i].data = data

IsEip155Switch(ev) ==
    /\ ev.event = "SWITCH_NETWORK"
    /\ ev.network.ns = "eip155"
    /\ ev.network.ref # << >>
    /\ \A i \in 1..Len(ev.network.ref) : ev.network.ref[i] \in Digits

\* C1: a raw switch-network event 'eip155:N' delivered through the handler
\* registered at construction sets the current network id to N and gives every
\* registered subscriber exactly one NETWORK_CHANGED with chainId N and the
\* api urls configured for N (the empty mapping when there are none).
C1_SwitchNetworkNotifies ==
    [][ (lastRaw' # lastRaw /\ IsEip155Switch(lastRaw'.ev)) =>
          LET N == DecimalValue(lastRaw'.ev.network.ref) IN
          /\ networkId' = Num(N)
          /\ lastDispatch'.subs = subscribers
          /\ DeliveredToAll(lastDispatch'.run, subscribers, "NETWORK_CHANGED",
                 [chainId |-> Num(N),
                  apiUrls |-> IF N \in DOMAIN ApiUrlsConfig
                              THEN ApiUrlsConfig[N] ELSE {}]) ]_vars

\* C2: once a NETWORK_CHANGED has been delivered, the network id the storage
\* service derives keys from and the network id the contract service resolves
\* contracts with both equal the chainId of the last NETWORK_CHANGED delivered.
C2_NamespacingFollowsLastEvent ==
    lastChanged # Null =>
        /\ StorageNetworkId = lastChanged
        /\ getNetworkId = Returned(lastChanged)

\* C3: a callback that throws does not stop a dispatch: every registered
\* callback is invoked exactly once, in order, with the same notification and
\* payload, and the exception reaches neither the dispatcher's caller nor the
\* event handler's.
C3_ThrowingCallbackIsolated ==
    lastDispatch.run.n # "none" =>
        /\ DeliveredToAll(lastDispatch.run, lastDispatch.subs,
                          lastDispatch.run.n, lastDispatch.run.data)
        /\ ~lastDispatch.run.escaped
        /\ ~lastRaw.threw

\* A dispatch in which a callback threw and a later one was still invoked.
C3_Witness ==
    /\ lastDispatch.run.n # "none"
    /\ \E i, j \in 1..Len(lastDispatch.run.calls) :
          /\ i < j
          /\ lastDispatch.run.calls[i].threw
          /\ ~lastDispatch.run.calls[j].threw

\* C4: the current network id is written only by the handling of a raw
\* switch-network event.  A step that changes it is the handling of such an
\* event and leaves the value that event names; a step of an application call
\* (selectNetwork and the wallet's answers to it, getSigner,
\* getAvailableNetworks, the modal, the storage and contract operations),
\* subscribeToChanges, and the handling of any other raw event leave it as it
\* was.
C4_NetworkIdFrame ==
    [][ /\ networkId' # networkId =>
              /\ lastRaw'.ev.event = "SWITCH_NETWORK"
              /\ networkId' = ToNumber(StripEip155(lastRaw'.ev.network))
              /\ call' = call
              /\ subscribers' = subscribers
        /\ call' # call => networkId' = networkId
        /\ subscribers' # subscribers => networkId' = networkId
        /\ (lastRaw' # lastRaw /\ lastRaw'.ev.event # "SWITCH_NETWORK") =>
              networkId' = networkId ]_vars

\* selectNetwork(N) has resolved while the current network id, written by an
\* earlier switch event, is another chain's.
C4_Witness ==
    /\ call.op = "selectNetwork"
    /\ call.outcome = "resolved"
    /\ networkId.t = "number"
    /\ networkId # Num(call.chainId)

\* C5: selectNetwork with a chain id that is not configured rejects with the
\* not-found error and sends the wallet no request, in either mode.
C5_UnconfiguredRejected ==
    (call.op = "selectNetwork" /\ ~Configured(call.chainId)) =>
        /\ call.pc = "settled"
        /\ call.outcome = "rejected"
        /\ call.error = NotFoundError
        /\ call.requests = << >>

\* An unconfigured chain id was rejected although a wallet provider was there.
C5_Witness ==
    /\ call.op = "selectNetwork"
    /\ call.pc = "settled"
    /\ call.chainId = 999
    /\ call.hadProvider
    /\ call.outcome = "rejected"

\* C6: selectNetwork of a configured testnet rejects with the policy error
\* before any wallet request when developer mode is off; with developer mode on
\* (and a provider attached) the call issues the wallet switch request.
C6_TestnetPolicy ==
    (call.op = "selectNetwork" /\ TestnetId(call.chainId)) =>
        IF ~developerMode
        THEN /\ call.pc = "settled"
             /\ call.outcome = "rejected"
             /\ call.error = PolicyError
             /\ call.requests = << >>
        ELSE call.hadProvider =>
                /\ Len(call.requests) >= 1
                /\ call.requests[1].method = "wallet_switchEthereumChain"
                /\ call.requests[1].chainId = "0x5"

\* A testnet was refused by policy although a wallet provider was there.
C6_Witness ==
    /\ ~developerMode
    /\ call.op = "selectNetwork"
    /\ call.pc = "settled"
    /\ TestnetId(call.chainId)
    /\ call.hadProvider
    /\ call.error = PolicyError

\* An unrecognized-chain answer: code 4902, or a message the pattern matches.
UnrecognizedReply(r) ==
    /\ ~r.ok
    /\ \/ r.err.code = 4902
       \/ r.err.message \in {"Unrecognized chain ID", "Chain not added to wallet",
                             "Try: Add Ethereum Chain"}

Last(q) == q[Len(q)]

\* C7: when the first switch request fails with an unrecognized-chain error the
\* service sends exactly one add-chain request and, once that is accepted,
\* exactly one further switch request, in that order and for the same chain id;
\* the call resolves only if the second switch succeeds and otherwise rejects
\* with the error of the add or of the second switch; there is no further
\* retry (at most two switch requests and one add request).
C7_AddThenSwitchOnce ==
    (call.op = "selectNetwork" /\ Len(call.replies) >= 1 /\ UnrecognizedReply(call.replies[1])) =>
        /\ Len(call.requests) \in {2, 3}
        /\ Len(call.replies) <= Len(call.requests)
        /\ call.requests[1].method = "wallet_switchEthereumChain"
        /\ call.requests[2].method = "wallet_addEthereumChain"
        /\ \A i \in 1..Len(call.requests) :
              call.requests[i].chainId = call.requests[1].chainId
        /\ (Len(call.requests) = 3) <=> (Len(call.replies) >= 2 /\ call.replies[2].ok)
        /\ Len(call.requests) = 3 =>
              call.requests[3].method = "wallet_switchEthereumChain"
        /\ (call.pc = "settled") <=>
              (Len(call.replies) = Len(call.requests)
                 /\ (Len(call.replies) = 3 \/ ~Last(call.replies).ok))
        /\ call.pc = "settled" =>
              /\ (call.outcome = "resolved") <=>
                    (Len(call.replies) = 3 /\ call.replies[3].ok)
              /\ (call.outcome = "rejected") <=> ~Last(call.replies).ok
              /\ call.outcome = "rejected" => call.error = Last(call.replies).err

\* A call resolved after switch (unrecognized), add, switch.
C7_Witness ==
    /\ call.op = "selectNetwork"
    /\ call.pc = "settled"
    /\ call.outcome = "resolved"
    /\ Len(call.requests) = 3
    /\ call.replies[1].err.code # 4902

\* The first switch request was answered with an error that is not an
\* unrecognized-chain error.
OtherSwitchFailure(c) ==
    /\ Len(c.replies) >= 1
    /\ ~c.replies[1].ok
    /\ ~UnrecognizedReply(c.replies[1])

\* The call was made for a configured chain the policy allows, with no wallet
\* provider attached.
CalledWithoutProvider(c) ==
    /\ ~c.hadProvider
    /\ Configured(c.chainId)
    /\ ~(TestnetId(c.chainId) /\ ~developerMode)

\* C8: when the switch request fails with an error that is not an
\* unrecognized-chain error, or no wallet provider is attached, selectNetwork
\* rejects to its caller with that error, sends no add-chain request and no
\* second switch request, and no step of the call notifies a subscriber.
C8_OtherFailurePropagates ==
    [][ (call' # call /\ call'.op = "selectNetwork") =>
          /\ lastDispatch' = lastDispatch
          /\ OtherSwitchFailure(call') =>
                /\ call'.pc = "settled"
                /\ call'.outcome = "rejected"
                /\ call'.error = call'.replies[1].err
                /\ Len(call'.requests) = 1
                /\ call'.requests[1].method = "wallet_switchEthereumChain"
          /\ CalledWithoutProvider(call') =>
                /\ call'.pc = "settled"
                /\ call'.outcome = "rejected"
                /\ call'.error = NoProviderError
                /\ call'.requests = << >> ]_vars

\* The wallet refused the switch of a call made after subscribers had been
\* notified of something else.
C8_Witness ==
    /\ call.op = "selectNetwork"
    /\ OtherSwitchFailure(call)
    /\ call.outcome = "rejected"
    /\ call.error.code = 4001
    /\ subscribers # << >>
    /\ lastDispatch.run.n # "none"

\* C9: every raw connect-success or wallet-selected event is followed by a
\* CONNECTED notification to every registered subscriber, also when the signer
\* cannot be acquired or no provider is attached.  In a state whose last raw
\* event is such an event and where no signer promise is outstanding, that
\* notification must therefore have been the last thing dispatched.
C9_ConnectAlwaysNotified ==
    (IsConnect(lastRaw.ev) /\ pending = 0) =>
        /\ lastDispatch.run.n = "CONNECTED"
        /\ DeliveredToAll(lastDispatch.run, lastDispatch.subs, "CONNECTED",
                          lastDispatch.run.data)

\* C10: retrieveMetadata(k) while network A is active returns the value last
\* stored under k while A was active, whatever happened on other networks, and
\* fails with the not-found error when nothing was stored under k on A.
C10_NamespaceIsolation ==
    (call.op = "retrieveMetadata" /\ Truthy(call.net)) =>
        IF <<call.net.v, call.key>> \in DOMAIN stored
        THEN call.result = Returned(stored[<<call.net.v, call.key>>])
        ELSE call.result = Threw("No metadata found")

\* C11: while the current network id is null (also after a CONNECTED
\* notification) storeMetadata and retrieveMetadata fail with the
\* no-network-selected error and the adapter is neither read nor written; once
\* a chain N is active the one adapter call they make uses the key
\* 'metadata_N_' followed by the caller's key, and a store writes that cell
\* and no other.
C11_NoNetworkNoAccess ==
    [][ (call' # call /\ call'.op \in {"storeMetadata", "retrieveMetadata"}) =>
          /\ call'.net = networkId
          /\ networkId = Null =>
                /\ call'.result = Threw("No network selected")
                /\ call'.access = << >>
                /\ localStorage' = localStorage
          /\ Truthy(networkId) =>
                LET expected == "metadata_" \o ToString(networkId.v) \o "_" \o call'.key IN
                /\ Len(call'.access) = 1
                /\ call'.access[1].key = expected
                /\ call'.access[1].method =
                      (IF call'.op = "storeMetadata" THEN "setItem" ELSE "getItem")
                /\ call'.op = "storeMetadata" =>
                      /\ DOMAIN localStorage' = DOMAIN localStorage \cup {expected}
                      /\ \A k \in DOMAIN localStorage \ {expected} :
                            localStorage'[k] = localStorage[k]
                /\ call'.op = "retrieveMetadata" => localStorage' = localStorage ]_vars

\* A store refused for want of a network after subscribers were told of a
\* connection.
C11_Witness ==
    /\ call.op = "storeMetadata"
    /\ call.net = Null
    /\ call.result = Threw("No network selected")
    /\ lastDispatch.run.n = "CONNECTED"
    /\ subscribers # << >>

\* C12: round trip.  On an active network, retrieveMetadata(k) after
\* storeMetadata(k, v) returns v, for every storable v, the empty string
\* included; it does not fail with the not-found error.
C12_RoundTrip ==
    [][ (call' # call /\ call'.op = "retrieveMetadata" /\ Truthy(networkId)
           /\ <<networkId.v, call'.key>> \in DOMAIN stored) =>
          call'.result = Returned(stored[<<networkId.v, call'.key>>]) ]_vars

\* A record has a top-level field, or a field of a one-level nested object,
\* whose string form equals the query ignoring case.
StatedMatch(record, query) ==
    \E i \in 1..Len(record.e) :
        LET value == record.e[i].v IN
        IF value.t = "object"
        THEN \E j \in 1..Len(value.e) :
                ToLowerCase(ToText(value.e[j].v)) = ToLowerCase(query)
        ELSE ToLowerCase(ToText(value)) = ToLowerCase(query)

\* The positions of the records of a collection that match the query.
StatedHits(items, query) ==
    {i \in 1..Len(items.e) : StatedMatch(items.e[i], query)}

SearchedCollection ==
    /\ call.op = "findContentByKeyAndQuery"
    /\ call.items # Null
    /\ call.items.t = "array"

\* C13: findContentByKeyAndQuery over a stored collection of records succeeds
\* if and only if some record has a top-level field, or a field of a one-level
\* nested object, whose string form equals the query ignoring case, falsy
\* field values (0, false) included at either level; otherwise it fails with
\* the not-found error.
C13_SearchFindsIffMatch ==
    SearchedCollection =>
        /\ (call.outcome = "resolved") <=> (StatedHits(call.items, call.query) # {})
        /\ call.outcome # "resolved" =>
              (call.outcome = "rejected" /\ call.error = "No match found")

\* C14: when several records of the collection match the query, the call
\* returns the whole record that comes first in the collection's order.
C14_FirstMatchReturned ==
    (SearchedCollection /\ call.outcome = "resolved"
       /\ Cardinality(StatedHits(call.items, call.query)) >= 2) =>
        LET hits == StatedHits(call.items, call.query) IN
        call.value = call.items.e[CHOOSE i \in hits : \A j \in hits : i <= j]

\* C15: getAvailableNetworks() returns exactly the configured networks not
\* flagged testnet when developer mode is off and exactly all configured
\* networks when it is on, each once and in configuration order, and changes
\* neither the current network id nor the subscribers nor the configuration.
C15_AvailableNetworks ==
    [][ (call' # call /\ call'.op = "getAvailableNetworks") =>
          LET kept == {i \in 1..Len(NetworkList) :
                          developerMode \/ ~NetworkList[i].testnet}
              value == call'.value IN
          /\ Len(value) = Cardinality(kept)
          /\ \A i \in kept : \E j \in 1..Len(value) : value[j] = NetworkList[i]
          /\ \A j \in 1..Len(value) : \E i \in kept : value[j] = NetworkList[i]
          /\ \A j, k \in 1..Len(value) :
                j < k => \E a, b \in kept :
                            a < b /\ value[j] = NetworkList[a] /\ value[k] = NetworkList[b]
          /\ UNCHANGED << serviceVars, sdkVars, storageVars >> ]_vars

\* The list was asked for with developer mode off, after a switch event and a
\* subscription, and came back without the testnet.
C15_Witness ==
    /\ call.op = "getAvailableNetworks"
    /\ ~developerMode
    /\ Len(call.value) < Len(NetworkList)
    /\ networkId # Null
    /\ subscribers # << >>

IsPrefix(p, q) == Len(p) <= Len(q) /\ \A i \in 1..Len(p) : p[i] = q[i]

\* C16: each notification is delivered to the callbacks one after another in
\* the order of their registration, and a registered callback is never
\* removed: a step only ever appends to the registration order, and a
\* dispatch calls the callbacks registered at that moment, each at its
\* position in that order.
C16_RegistrationOrder ==
    [][ /\ IsPrefix(subscribers, subscribers')
        /\ lastDispatch' # lastDispatch =>
              /\ lastDispatch'.subs = subscribers
              /\ Len(lastDispatch'.run.calls) = Len(subscribers)
              /\ \A i \in 1..Len(subscribers) :
                    lastDispatch'.run.calls[i].cb = subscribers[i] ]_vars

\* A dispatch over three callbacks registered in the order cbB, cbA, cbBad.
C16_Witness ==
    /\ lastDispatch.run.n = "NETWORK_CHANGED"
    /\ Len(lastDispatch.run.calls) = 3
    /\ lastDispatch.run.calls[1].cb = "cbB"
    /\ lastDispatch.run.calls[2].cb = "cbA"
    /\ lastDispatch.run.calls[3].cb = "cbBad"

\* The call named a contract, and the resolution has nothing to resolve it
\* with: no contracts for the network, no such contract, or no such ABI.
NothingToResolve(c) ==
    /\ c.abiName = NoAbi
    /\ c.net # Null
    /\ \/ c.net.v \notin DOMAIN ContractsConfig
       \/ c.target \notin DOMAIN ContractsConfig[c.net.v]
       \/ ContractsConfig[c.net.v][c.target].name \notin Abis

\* C17: sendTransaction, readCall and encodeFunctionData, called with a
\* contract name that cannot be resolved (no contracts for the network, no
\* such contract, or its ABI missing), fail to their caller with a not-found
\* error -- a rejected operation for the asynchronous two -- and acquire no
\* signer, make no RPC call and submit no transaction.
C17_ResolutionFailureRejects ==
    /\ (call.op \in {"sendTransaction", "readCall"} /\ NothingToResolve(call)) =>
          /\ call.pc = "settled"
          /\ call.outcome = "rejected"
          /\ call.effects = << >>
    /\ (call.op = "encodeFunctionData" /\ NothingToResolve(call)) =>
          ~call.result.ok

\* C18: every call of sendTransaction, readCall or selectNetwork settles once
\* the requests it awaits have settled: a call that awaits nothing any more
\* has resolved or rejected to its caller, whatever failed on the way.
C18_CallsSettle ==
    (call.op \in {"sendTransaction", "readCall", "selectNetwork"}
       /\ call.pc = "settled") =>
        call.outcome \in {"resolved", "rejected"}

\* C19: sendTransaction called for a resolvable contract while no wallet
\* provider is attached rejects with the no-provider error, and neither
\* estimates gas nor submits a transaction.
C19_NoProviderRejects ==
    [][ (call' # call /\ CanCall /\ call'.op = "sendTransaction" /\ ~provider
           /\ getNetworkId.ok
           /\ ResolveTarget(getNetworkId.value.v, call'.target, call'.abiName).kind = "ok") =>
          /\ call'.pc = "settled"
          /\ call'.outcome = "rejected"
          /\ call'.error = NoProviderError.message
          /\ \A i \in 1..Len(call'.effects) :
                call'.effects[i].kind \notin {"estimateGas", "send"} ]_vars

\* C20: in sendTransaction the transaction is submitted only after a gas
\* estimation was asked for and answered, at most once, with the answered
\* estimate as its gas limit; when the estimation fails nothing is submitted.
C20_GasEstimateBeforeSend ==
    call.op = "sendTransaction" =>
        LET fx == call.effects
            sends == {i \in 1..Len(fx) : fx[i].kind = "send"} IN
        /\ Cardinality(sends) <= 1
        /\ \A i \in sends :
              /\ i >= 3
              /\ fx[i - 1].kind = "gasEstimate"
              /\ fx[i - 2].kind = "estimateGas"
              /\ fx[i].gasLimit = fx[i - 1].value
        /\ call.error = "rejected at gas" => sends = {}
        /\ call.outcome = "resolved" => sends # {}

\* A transaction went out with the larger of the estimates as its gas limit.
C20_Witness ==
    /\ call.op = "sendTransaction"
    /\ call.outcome = "resolved"
    /\ \E i \in 1..Len(call.effects) :
          call.effects[i].kind = "send" /\ call.effects[i].gasLimit = 50000

\* The first configured RPC url of the configured network with this id.
RpcOf(id) ==
    LET i == CHOOSE j \in 1..Len(NetworkList) : NetworkList[j].id = id IN
    NetworkList[i].rpc

\* The target of a readCall can be resolved on network id: an explicit ABI
\* that is registered, or a contract configured there with an address and a
\* registered ABI.
ResolvableOn(id, target, abiName) ==
    IF abiName # NoAbi THEN abiName \in Abis
    ELSE /\ id \in DOMAIN ContractsConfig
         /\ target \in DOMAIN ContractsConfig[id]
         /\ ContractsConfig[id][target].address # ""
         /\ ContractsConfig[id][target].name \in Abis

\* C21: while a configured network N is active (the last NETWORK_CHANGED
\* delivered carried N), a readCall whose target can be resolved on N goes out
\* through N's first configured RPC url, also when N is a testnet and
\* developer mode is off; never through another network's url, and never
\* failing for N being hidden from getAvailableNetworks.
C21_ReadCallUsesActiveRpc ==
    [][ (call' # call /\ CanCall /\ call'.op = "readCall"
           /\ lastChanged.t = "number" /\ Configured(lastChanged.v)
           /\ networkId = lastChanged
           /\ ResolvableOn(lastChanged.v, call'.target, call'.abiName)) =>
          /\ call'.pc = "read"
          /\ Len(call'.effects) = 1
          /\ call'.effects[1].rpc = RpcOf(lastChanged.v) ]_vars

\* C22: with a raw address and an explicit ABI name, each of sendTransaction,
\* readCall and encodeFunctionData uses the ABI registered under that name and
\* the address as given, and looks no contract up; with a contract name alone
\* they use the address and ABI configured for that name on the network the
\* operation resolves against.
C22_ExplicitAbiUsed ==
    (call.op \in {"sendTransaction", "readCall", "encodeFunctionData"}
       /\ call.net # Null) =>
        IF call.abiName # NoAbi
        THEN call.abiName \in Abis =>
               IF call.op = "encodeFunctionData"
               THEN call.result = Returned([abi |-> call.abiName])
               ELSE call.abi = call.abiName /\ call.address = call.target
        ELSE ResolvableOn(call.net.v, call.target, NoAbi) =>
               LET info == ContractsConfig[call.net.v][call.target] IN
               IF call.op = "encodeFunctionData"
               THEN call.result = Returned([abi |-> info.name])
               ELSE call.abi = info.name /\ call.address = info.address

\* Number(text) of a run of decimal digits.
RECURSIVE NumberOfText(_)
NumberOfText(s) ==
    IF Len(s) = 0 THEN 0
    ELSE 10 * NumberOfText(SubSeq(s, 1, Len(s) - 1))
           + DigitValue(SubSeq(s, Len(s), Len(s)))

\* C23: for every chain id, selectNetwork on the facade has the outcome of
\* selectNetwork on the service with that chain id: the same rejection, or the
\* same first wallet request and the same position in the exchange; a
\* configured, permitted chain id reaches the wallet switch request.
C23_FacadeSelectSameAsService ==
    [][ (call' # call /\ CanCall /\ call'.op = "SmartDapp.selectNetwork") =>
          LET service == SelectNetworkStart(NumberOfText(call'.chainIdText)) IN
          /\ call'.pc = service.pc
          /\ call'.outcome = service.outcome
          /\ call'.error = service.error
          /\ call'.requests = service.requests ]_vars

\* C24: the boolean given as second argument of the facade's constructor is the
\* service's developer-mode flag, and the configured api-url mapping and
\* network map are what the service's constructor receives as its api urls
\* and its network map; the construction succeeds.
C24_ConstructorPassesConfiguration ==
    [][ (call' # call /\ CanCall /\ call'.op = "new SmartDapp") =>
          /\ call'.outcome = "returned"
          /\ developerMode' = call'.onlyMainnet
          /\ call'.bound.developerMode = Bool(call'.onlyMainnet)
          /\ call'.bound.apiUrls = ConfigApiUrls
          /\ call'.bound.networksMap = ConfigNetworks ]_vars

\* C25: createCacheKey called with the same key and parameters under two
\* different active network ids returns two different cache keys.
C25_CacheKeyPerNetwork ==
    [][ (call.op = "createCacheKey" /\ call'.op = "createCacheKey"
           /\ call'.key = call.key /\ call'.params = call.params
           /\ Truthy(call.net) /\ Truthy(call'.net) /\ call'.net # call.net) =>
          call'.result # call.result ]_vars

\* C26: notifications are delivered in the order of the raw events that caused
\* them: when the last raw event was a disconnect and its DISCONNECTED is the
\* last notification delivered, the next notification delivered is not the
\* CONNECTED of a connect event that came before that disconnect.
C26_NotificationsInEventOrder ==
    [][ (lastRaw.ev.event = "DISCONNECT_SUCCESS" /\ ~lastRaw.threw
           /\ lastDispatch.run.n = "DISCONNECTED"
           /\ lastRaw' = lastRaw /\ lastDispatch' # lastDispatch) =>
          lastDispatch'.run.n # "CONNECTED" ]_vars

\* C27: the current network id is null or the numeric id of a configured
\* network, and with developer mode off never the id of a testnet, whatever
\* raw switch-network events were delivered.
C27_NetworkIdConfiguredAndPermitted ==
    \/ networkId = Null
    \/ /\ networkId.t = "number"
       /\ Configured(networkId.v)
       /\ ~developerMode => ~TestnetId(networkId.v)

\* C28: the handler registered with the SDK at construction runs against the
\* service instance: no raw event the SDK delivers makes it throw.
C28_RegisteredHandlerCompletes ==
    [][ lastRaw' # lastRaw =>
          /\ ~ThrowsOnReceiver(RegisteredReceiver, lastRaw'.ev)
          /\ ~lastRaw'.threw ]_vars

\* C29: the adapter key is injective over (network id, key): two records
\* stored under different (network id, key) pairs have different adapter keys
\* and occupy different cells, and a read of a key never stored on the active
\* network finds nothing, whatever is stored under other networks.
C29_StorageKeyInjective ==
    /\ \A p, q \in DOMAIN stored :
          StorageKey(Num(p[1]), p[2]) = StorageKey(Num(q[1]), q[2]) => p = q
    /\ Cardinality(DOMAIN localStorage) = Cardinality(DOMAIN stored)
    /\ \A p \in DOMAIN stored : HasItem(StorageKey(Num(p[1]), p[2]))
    /\ (call.op = "retrieveMetadata" /\ Truthy(call.net)
          /\ <<call.net.v, call.key>> \notin DOMAIN stored) =>
             ~call.result.ok

\* Records are stored on network 1 under "37_x" and on network 137 under "x",
\* each in a cell of its own.
C29_Witness ==
    /\ <<1, "37_x">> \in DOMAIN stored
    /\ <<137, "x">> \in DOMAIN stored
    /\ HasItem("metadata_1_37_x")
    /\ HasItem("metadata_137_x")

\* C30: registering a callback that is registered already changes nothing: the
\* subscriber set keeps its members and their order, holds no callback twice,
\* and every notification calls each registered callback exactly once, at the
\* position of its first registration.
C30_DuplicateSubscribeIsNoOp ==
    [][ /\ (call' # call /\ call'.op = "SmartDapp.subscribeToChanges"
              /\ \E i \in 1..Len(subscribers) : subscribers[i] = call'.cb) =>
             subscribers' = subscribers
        /\ \A i, j \in 1..Len(subscribers') :
             subscribers'[i] = subscribers'[j] => i = j
        /\ lastDispatch' # lastDispatch =>
             /\ Len(lastDispatch'.run.calls) = Len(subscribers)
             /\ \A i \in 1..Len(subscribers) :
                  /\ lastDispatch'.run.calls[i].cb = subscribers[i]
                  /\ Cardinality({j \in 1..Len(lastDispatch'.run.calls) :
                        lastDispatch'.run.calls[j].cb = subscribers[i]}) = 1 ]_vars

\* "cbA", registered first and then again after "cbB", is still first of two in
\* the set, and a notification went to the two of them, once each.
C30_Witness ==
    /\ call.op = "SmartDapp.subscribeToChanges"
    /\ call.cb = "cbA"
    /\ subscribers = << "cbA", "cbB" >>
    /\ lastDispatch.subs = subscribers
    /\ Len(lastDispatch.run.calls) = 2
    /\ lastDispatch.run.calls[1].cb = "cbA"
====
